---- MODULE Spec2Model ----
(***************************************************************************)
(* AiJobHelper: the interview store (useInterviewStore.ts), the job        *)
(* description upload screen and the question generator (FileUpload.tsx),  *)
(* the interview screen (InterviewInterface.tsx), the keyword scoring      *)
(* heuristics (AnswerEvaluator.tsx), the header and the results screen.    *)
(*                                                                         *)
(* Texts are TLA+ strings; the string functions of the code (trim,         *)
(* includes, toLowerCase, toUpperCase, replace) are computed character by  *)
(* character.  A nullable value is a sequence of length 0 (null or         *)
(* undefined) or 1.  Scores are kept in half points (ScoreScale), because  *)
(* evaluateByCategory produces multiples of 1.5.                           *)
(*                                                                         *)
(* Fields of the records that no modelled operation reads are left out:    *)
(* title, company, tools, softSkills and experience of a JobDescription;   *)
(* difficulty, category and points of a Question; feedback, timeSpent and  *)
(* attempts of an Answer; the random resumeLevel (and gap, status) of a    *)
(* SkillGap; the speech synthesis calls.                                   *)
(***************************************************************************)
EXTENDS Integers, Sequences, FiniteSets, TLC

VARIABLES
    \* useInterviewStore: the state of the store, one field per state field
    store,
    \* what the persist middleware holds in localStorage under 'interview-store'
    storage,
    \* FileUpload component
    \* jdTimeout: the texts of the analysis timers that are pending, oldest first
    uploadStatus, jdText, jdTimeout,
    \* SkillAnalysis component
    isAnalyzing, analysisTimer,
    \* InterviewInterface component
    answer, code, timeSpent, hasSubmitted, evaluation, isEvaluating,
    isRecording, evalTimer,
    \* the pending timers of the simulated voice input, oldest first: for each,
    \* the index of the question on which the recording was started
    voiceTimers,
    \* timers still pending of SkillAnalysis and InterviewInterface components
    \* that are no longer mounted, oldest first
    orphanAnalyses, orphanEvals,
    \* counters that bound the exploration
    sessions, retries, voiceStarts,
    \* the evaluator applied to a question and a text (specification SpecEval)
    evalQuestion, evalInput, evalResult

uploadVars == <<uploadStatus, jdText, jdTimeout>>
analysisVars == <<isAnalyzing, analysisTimer>>
interviewVars == <<answer, code, timeSpent, hasSubmitted, evaluation,
                   isEvaluating, isRecording, evalTimer, voiceTimers>>
boundVars == <<sessions, retries, voiceStarts>>
evalVars == <<evalQuestion, evalInput, evalResult>>
orphanVars == <<orphanAnalyses, orphanEvals>>
vars == <<store, storage, uploadVars, analysisVars, interviewVars, boundVars, evalVars,
          orphanVars>>

Null == <<>>
Some(x) == <<x>>
Val(o) == o[1]

Max(a, b) == IF a >= b THEN a ELSE b
Min(a, b) == IF a <= b THEN a ELSE b

---------------------------------------------------------------------------
(* Strings *)

UpperAlphabet == "ABCDEFGHIJKLMNOPQRSTUVWXYZ"
LowerAlphabet == "abcdefghijklmnopqrstuvwxyz"
AlphabetSize == Len(UpperAlphabet)

charAt(s, i) == SubSeq(s, i, i)

IsSpace(c) == c \in {" ", "\n", "\t"}

LowerCaseLetters == {charAt(LowerAlphabet, i) : i \in 1..AlphabetSize}
UpperCaseLetters == {charAt(UpperAlphabet, i) : i \in 1..AlphabetSize}

\* The two case mappings, as the sets of their pairs <<upper, lower>>.
CasePairs == {<<charAt(UpperAlphabet, i), charAt(LowerAlphabet, i)>> : i \in 1..AlphabetSize}

lowerChar(c) ==
    IF c \in UpperCaseLetters THEN (CHOOSE p \in CasePairs : p[1] = c)[2] ELSE c

upperChar(c) ==
    IF c \in LowerCaseLetters THEN (CHOOSE p \in CasePairs : p[2] = c)[1] ELSE c

\* toLowerCase, toUpperCase and the replace calls split the text in halves, so that the depth of the
\* evaluation grows with the logarithm of the length.
RECURSIVE mapChars(_, _)
mapChars(s, upper) ==
    IF Len(s) = 0 THEN ""
    ELSE IF Len(s) = 1 THEN (IF upper THEN upperChar(s) ELSE lowerChar(s))
    ELSE mapChars(SubSeq(s, 1, Len(s) \div 2), upper)
         \o mapChars(SubSeq(s, Len(s) \div 2 + 1, Len(s)), upper)

toLowerCase(s) == mapChars(s, FALSE)
toUpperCase(s) == mapChars(s, TRUE)

includes(s, sub) ==
    \E i \in 1..(Len(s) - Len(sub) + 1) : SubSeq(s, i, i + Len(sub) - 1) = sub

\* trim: the white space at the two ends is dropped
trim(s) ==
    LET n == Len(s)
        leading == CHOOSE k \in 0..n :
                       /\ k = n \/ ~IsSpace(charAt(s, k + 1))
                       /\ \A j \in 1..k : IsSpace(charAt(s, j))
        trailing == CHOOSE k \in 0..n :
                       /\ k = n \/ ~IsSpace(charAt(s, n - k))
                       /\ \A j \in (n - k + 1)..n : IsSpace(charAt(s, j))
    IN  SubSeq(s, leading + 1, n - trailing)

\* s.replace(/\s+/g, '') with dots = FALSE, s.replace(/[.\s]/g, '') with dots = TRUE
RECURSIVE dropChars(_, _)
dropChars(s, dots) ==
    IF Len(s) = 0 THEN ""
    ELSE IF Len(s) = 1 THEN (IF IsSpace(s) \/ (dots /\ s = ".") THEN "" ELSE s)
    ELSE dropChars(SubSeq(s, 1, Len(s) \div 2), dots)
         \o dropChars(SubSeq(s, Len(s) \div 2 + 1, Len(s)), dots)

removeSpaces(s) == dropChars(s, FALSE)
removeDotsAndSpaces(s) == dropChars(s, TRUE)

\* s.replace(' ', ''): a string pattern replaces the first occurrence only
removeFirstSpace(s) ==
    LET at == {i \in 1..Len(s) : charAt(s, i) = " "}
    IN  IF at = {} THEN s
        ELSE LET first == CHOOSE i \in at : \A j \in at : i <= j
             IN  SubSeq(s, 1, first - 1) \o SubSeq(s, first + 1, Len(s))

\* array.filter(p), p given as the set of the elements it accepts
RECURSIVE filter(_, _)
filter(seq, keep) ==
    IF seq = <<>> THEN <<>>
    ELSE (IF Head(seq) \in keep THEN <<Head(seq)>> ELSE <<>>) \o filter(Tail(seq), keep)

Range(seq) == {seq[i] : i \in 1..Len(seq)}

---------------------------------------------------------------------------
(* AnswerEvaluator *)

\* Scores are counted in units of 1/ScoreScale point.
ScoreScale == 2
Pts(n) == n * ScoreScale

Result(s, ok) == [threw |-> FALSE, score |-> s, isCorrect |-> ok]
\* A call of a method the class does not define: a TypeError is thrown.
Threw == [threw |-> TRUE, score |-> 0, isCorrect |-> FALSE]

NonsenseKeywords ==
    {"function", "class", "def", "select", "if", "for", "while", "return", "print", "console"}
mashPatterns == {"asdf", "qwer", "zxcv", "hjkl", "1234", "abcd"}

\* /^[a-z]{3,}$/
IsLetters3(s) ==
    /\ Len(s) >= 3
    /\ \A i \in 1..Len(s) : charAt(s, i) \in LowerCaseLetters

\* /(.)\1{4,}/
HasRepeat5(s) ==
    \E i \in 1..(Len(s) - 4) : \A k \in 1..4 : charAt(s, i + k) = charAt(s, i)

\* On a string of letters only, \b matches at its two ends alone, so the
\* keyword pattern matches exactly when the whole string is a keyword.
isNonsenseInput(input) ==
    LET cleaned == toLowerCase(removeSpaces(input))
    IN  \/ IsLetters3(cleaned) /\ cleaned \notin NonsenseKeywords
        \/ HasRepeat5(cleaned)
        \/ \E pattern \in mashPatterns : includes(cleaned, pattern)

\* new Function(code): whether the text parses as a JavaScript function body.
\* The parser is the browser's; its verdict is tabulated for the sample texts.
JavaScriptThatParses ==
    { "function reverse(s) { let r = ''; for (const c of s) r = c + r; return r; }",
      "const reverse = s => s.split('').reverse().join('');",
      "function second(a) { return a.sort()[1]; }",
      "let m = Math.max(1, 2);",
      "x = 1",
      "if (a) b()" }
NewFunctionParses(c) == c \in JavaScriptThatParses

evaluateJavaScript(c, question) ==
    LET q == toLowerCase(question.question)
        s1 == IF includes(q, "reverse")
              THEN IF includes(c, ".reverse()") THEN Pts(3)
                   ELSE IF includes(c, "for") \/ includes(c, "while") THEN Pts(8)
                   ELSE Pts(4)
              ELSE 0
        s2 == IF includes(q, "second largest")
              THEN IF includes(c, "sort") THEN Pts(6)
                   ELSE IF includes(c, "Math.max") THEN Pts(7)
                   ELSE Pts(5)
              ELSE s1
        s3 == IF NewFunctionParses(c) THEN s2 + Pts(2) ELSE Max(0, s2 - Pts(2))
    IN  Result(Min(Pts(10), s3), s3 >= Pts(7))

\* evaluatePython without its Math.min(10, score); the range property is
\* checked against it to show that it depends on the cap.
evaluatePython_uncapped(c, question) ==
    LET q == toLowerCase(question.question)
        i1 == IF ~includes(c, "def ") /\ ~includes(c, "lambda") THEN 1 ELSE 0
        i2 == IF ~includes(c, "return") THEN 1 ELSE 0
        i3 == IF includes(c, "def ") /\ ~includes(c, "    ") THEN 1 ELSE 0
        slice == includes(q, "reverse") /\ includes(c, "[::-1]")
        i4 == IF slice THEN 1 ELSE 0
        s1 == IF includes(q, "reverse")
              THEN IF slice THEN Pts(6)
                   ELSE IF includes(c, "for") \/ includes(c, "while") THEN Pts(8)
                   ELSE 0
              ELSE 0
        issues == i1 + i2 + i3 + i4
        s2 == s1 + (IF issues = 0 THEN Pts(8) ELSE Max(Pts(2), Pts(6 - issues)))
    IN  Result(s2, s2 >= Pts(7))

evaluatePython(c, question) ==
    LET q == toLowerCase(question.question)
        i1 == IF ~includes(c, "def ") /\ ~includes(c, "lambda") THEN 1 ELSE 0
        i2 == IF ~includes(c, "return") THEN 1 ELSE 0
        i3 == IF includes(c, "def ") /\ ~includes(c, "    ") THEN 1 ELSE 0
        slice == includes(q, "reverse") /\ includes(c, "[::-1]")
        i4 == IF slice THEN 1 ELSE 0
        s1 == IF includes(q, "reverse")
              THEN IF slice THEN Pts(6)
                   ELSE IF includes(c, "for") \/ includes(c, "while") THEN Pts(8)
                   ELSE 0
              ELSE 0
        issues == i1 + i2 + i3 + i4
        s2 == s1 + (IF issues = 0 THEN Pts(8) ELSE Max(Pts(2), Pts(6 - issues)))
    IN  Result(Min(Pts(10), s2), s2 >= Pts(7))

evaluateSQL(c, question) ==
    LET q == toLowerCase(question.question)
        u == toUpperCase(c)
        hasBasicStructure == includes(u, "SELECT") /\ includes(u, "FROM")
        s1 == IF ~hasBasicStructure THEN Pts(1) ELSE Pts(5)
        s2 == IF includes(q, "second highest")
              THEN IF includes(u, "LIMIT") /\ includes(u, "OFFSET") THEN Pts(8)
                   ELSE IF includes(u, "ROW_NUMBER()") \/ includes(u, "RANK()") THEN Pts(9)
                   ELSE Pts(4)
              ELSE s1
        s3 == IF includes(q, "join")
              THEN IF ~includes(u, "JOIN") THEN Pts(2) ELSE Pts(8)
              ELSE s2
    IN  Result(Min(Pts(10), s3), s3 >= Pts(7))

evaluateGenericCode(c, question) ==
    LET s1 == IF Len(c) < 10 THEN Pts(1) ELSE IF Len(c) > 20 THEN Pts(5) ELSE 0
        s2 == IF includes(c, "if") \/ includes(c, "for") \/ includes(c, "while")
              THEN s1 + Pts(2) ELSE s1
    IN  Result(Min(Pts(10), s2), s2 >= Pts(6))

\* question.language?.toLowerCase() || 'javascript'; an absent language is "".
languageOf(question) ==
    IF toLowerCase(question.language) = "" THEN "javascript" ELSE toLowerCase(question.language)

evaluateCode(c, question) ==
    IF c = "" \/ Len(trim(c)) = 0 THEN Result(0, FALSE)
    ELSE IF isNonsenseInput(c) THEN Result(0, FALSE)
    ELSE LET language == languageOf(question)
         IN  CASE language = "javascript" -> evaluateJavaScript(c, question)
               [] language = "python" -> evaluatePython(c, question)
               [] language = "java" -> Threw
               [] language = "sql" -> evaluateSQL(c, question)
               [] OTHER -> evaluateGenericCode(c, question)

SolidPrinciples ==
    <<"single responsibility", "open closed", "liskov substitution",
      "interface segregation", "dependency inversion">>
MicroserviceConcepts ==
    <<"independent", "scalable", "distributed", "api", "database", "deployment">>

evaluateByCategory(a, question) ==
    LET answerLower == toLowerCase(a)
        q == toLowerCase(question.question)
        hasREST == includes(answerLower, "rest") \/ includes(answerLower, "representational")
        hasGraphQL == includes(answerLower, "graphql") \/ includes(answerLower, "graph ql")
        mentionsHTTP == includes(answerLower, "http") \/ includes(answerLower, "endpoint")
        mentionsQuery == includes(answerLower, "query") \/ includes(answerLower, "single endpoint")
        fetching == includes(answerLower, "over-fetching") \/ includes(answerLower, "under-fetching")
        s1 == IF includes(q, "rest") /\ includes(q, "graphql")
              THEN (IF hasREST /\ hasGraphQL THEN Pts(4) ELSE 0)
                   + (IF mentionsHTTP THEN Pts(2) ELSE 0)
                   + (IF mentionsQuery THEN Pts(2) ELSE 0)
                   + (IF fetching THEN Pts(2) ELSE 0)
              ELSE 0
        mentionedPrinciples ==
            {i \in 1..Len(SolidPrinciples) :
                includes(answerLower, removeFirstSpace(SolidPrinciples[i]))}
        s2 == IF includes(q, "solid") THEN Pts(Cardinality(mentionedPrinciples) * 2) ELSE s1
        mentionedConcepts ==
            {i \in 1..Len(MicroserviceConcepts) : includes(answerLower, MicroserviceConcepts[i])}
        \* Math.min(8, n * 1.5)
        s3 == IF includes(q, "microservices")
              THEN Min(Pts(8), (Pts(Cardinality(mentionedConcepts)) * 3) \div 2)
              ELSE s2
        s4 == IF s3 = 0
              THEN IF Len(a) > 100 THEN Pts(6) ELSE IF Len(a) > 50 THEN Pts(4) ELSE Pts(2)
              ELSE s3
    IN  Result(Min(Pts(10), s4), s4 >= Pts(7))

\* evaluateTheoretical without its check for an empty answer; the property of
\* blank answers is checked against it to show that it depends on the check.
evaluateTheoretical_unguarded(a, question) ==
    IF isNonsenseInput(a) THEN Result(0, FALSE)
    ELSE IF Len(trim(a)) < 10 THEN Result(Pts(2), FALSE)
    ELSE evaluateByCategory(a, question)

evaluateTheoretical(a, question) ==
    IF a = "" \/ Len(trim(a)) = 0 THEN Result(0, FALSE)
    ELSE IF isNonsenseInput(a) THEN Result(0, FALSE)
    ELSE IF Len(trim(a)) < 10 THEN Result(Pts(2), FALSE)
    ELSE evaluateByCategory(a, question)

evaluateSTARMethod(a, question) ==
    LET answerLower == toLowerCase(a)
        has(words) == \E w \in words : includes(answerLower, w)
        hasSituation == has({"situation", "when", "time", "project"})
        hasTask == has({"task", "responsible", "needed to", "had to"})
        hasAction == has({"action", "did", "implemented", "decided"})
        hasResult == has({"result", "outcome", "achieved", "improved"})
        s == (IF hasSituation THEN Pts(2) ELSE 0) + (IF hasTask THEN Pts(2) ELSE 0)
             + (IF hasAction THEN Pts(3) ELSE 0) + (IF hasResult THEN Pts(3) ELSE 0)
             + (IF Len(a) > 200 THEN Pts(1) ELSE 0)
    IN  Result(Min(Pts(10), s), s >= Pts(7))

evaluateBehavioral(a, question) ==
    IF a = "" \/ Len(trim(a)) = 0 THEN Result(0, FALSE)
    ELSE IF isNonsenseInput(a) THEN Result(0, FALSE)
    ELSE evaluateSTARMethod(a, question)

---------------------------------------------------------------------------
(* FileUpload: job description analysis *)

commonSkills ==
    <<"JavaScript", "Python", "Java", "React", "Node.js", "SQL", "AWS", "Docker", "Git",
      "TypeScript", "Angular", "Vue.js", "MongoDB", "PostgreSQL", "Redis", "Kubernetes",
      "GraphQL", "REST API", "Microservices", "CI/CD", "Jenkins", "Linux", "Agile",
      "HTML", "CSS", "Express.js", "Spring Boot", "Django", "Flask", "C++", "C#",
      "Go", "Rust", "PHP", "Ruby", "Swift", "Kotlin", "Scala", "R", "MATLAB">>

languages ==
    <<"JavaScript", "Python", "Java", "C++", "C#", "TypeScript", "Go", "Rust", "PHP",
      "Ruby", "Swift", "Kotlin">>

extractSkillsFromText(text) ==
    LET textLower == toLowerCase(text)
        found == filter(commonSkills,
                        {skill \in Range(commonSkills) :
                            \/ includes(textLower, toLowerCase(skill))
                            \/ includes(textLower, removeDotsAndSpaces(toLowerCase(skill)))})
        \* Math.max(3, Math.floor(found.length * 0.7))
        splitPoint == Max(3, (Len(found) * 7) \div 10)
    IN  [required |-> SubSeq(found, 1, Min(splitPoint, Len(found))),
         preferred |-> SubSeq(found, splitPoint + 1, Len(found))]

extractLanguagesFromText(text) ==
    LET textLower == toLowerCase(text)
    IN  filter(languages, {lang \in Range(languages) : includes(textLower, toLowerCase(lang))})

TooShortMessage == "Job description too short (minimum 50 characters)"
NoSkillsMessage == "No technical skills found. Please include programming languages and tools."

Rejected(message) == [rejected |-> TRUE, message |-> message, jobData |-> Null]
Resolved(jobData) == [rejected |-> FALSE, message |-> "", jobData |-> Some(jobData)]

\* parseJobDescription without its length check; the rejection property is
\* checked against it to show that it depends on the check.
parseJobDescription_anyLength(text) ==
    LET extractedSkills == extractSkillsFromText(text)
    IN  IF Len(extractedSkills.required) = 0 THEN Rejected(NoSkillsMessage)
        ELSE Resolved([requiredSkills |-> extractedSkills.required,
                       preferredSkills |-> extractedSkills.preferred,
                       languages |-> extractLanguagesFromText(text),
                       description |-> text])

parseJobDescription(text) ==
    IF text = "" \/ Len(trim(text)) < 50 THEN Rejected(TooShortMessage)
    ELSE LET extractedSkills == extractSkillsFromText(text)
         IN  IF Len(extractedSkills.required) = 0 THEN Rejected(NoSkillsMessage)
             ELSE Resolved([requiredSkills |-> extractedSkills.required,
                            preferredSkills |-> extractedSkills.preferred,
                            languages |-> extractLanguagesFromText(text),
                            description |-> text])

---------------------------------------------------------------------------
(* SkillAnalysis: the question generator *)

Question(id, type, text, language) ==
    [id |-> id, type |-> type, question |-> text, language |-> language]

\* The three coding questions are built for every language (questionId++ runs
\* three times) and the first language keeps three of them, the others two.
codingQuestions(language, index) ==
    LET firstId == 3 * (index - 1) + 1
        all == << Question(firstId, "coding",
                    "Implement a function to reverse a string without using built-in reverse methods in "
                        \o language, toLowerCase(language)),
                  Question(firstId + 1, "coding",
                    "Write a function to find the second largest number in an array using "
                        \o language, toLowerCase(language)),
                  Question(firstId + 2, "coding",
                    "Implement a binary search algorithm in " \o language, toLowerCase(language)) >>
    IN  SubSeq(all, 1, IF index = 1 THEN 3 ELSE 2)

RECURSIVE codingSection(_, _)
codingSection(codingLanguages, index) ==
    IF index > Len(codingLanguages) THEN <<>>
    ELSE codingQuestions(codingLanguages[index], index) \o codingSection(codingLanguages, index + 1)

sqlQuestionTexts ==
    <<"Write a query to find the second highest salary from an Employee table",
      "Create a query to find employees who earn more than their managers",
      "Write a query to calculate running totals using window functions",
      "Design a query to find duplicate records in a table",
      "Write a query to pivot data from rows to columns">>

theoreticalQuestionTexts ==
    <<"Explain the difference between REST and GraphQL APIs",
      "What are the SOLID principles in object-oriented programming?",
      "Explain database normalization and its benefits",
      "What is the difference between synchronous and asynchronous programming?",
      "Explain microservices architecture and its advantages",
      "What are design patterns and give examples of commonly used ones?",
      "Explain the concept of Big O notation and time complexity",
      "What is containerization and how does Docker work?",
      "Explain the CAP theorem in distributed systems",
      "What are the principles of clean code?">>

behavioralQuestionTexts ==
    <<"Tell me about a time when you had to learn a new technology quickly for a project",
      "Describe a situation where you had to work with a difficult team member",
      "Tell me about a time when you made a mistake in your code. How did you handle it?",
      "Describe a project you're most proud of and your role in it",
      "How do you handle tight deadlines and pressure?">>

section(texts, type, firstId) ==
    [i \in 1..Len(texts) |-> Question(firstId + i - 1, type, texts[i], "")]

\* jd: the store's jobDescription (nullable).  The component's skillGaps is
\* an array, so !skillGaps is false.
generateQuestions(jd) ==
    IF jd = Null THEN <<>>
    ELSE LET codingLanguages == Val(jd).languages
             coding == codingSection(codingLanguages, 1)
             sqlFirst == 3 * Len(codingLanguages) + 1
             hasSql == \E i \in 1..Len(Val(jd).requiredSkills) :
                           includes(toLowerCase(Val(jd).requiredSkills[i]), "sql")
             sql == IF hasSql THEN section(sqlQuestionTexts, "sql", sqlFirst) ELSE <<>>
             theoFirst == sqlFirst + Len(sql)
             theoretical == section(theoreticalQuestionTexts, "theoretical", theoFirst)
             behavioral == section(behavioralQuestionTexts, "behavioral",
                                   theoFirst + Len(theoretical))
         IN  coding \o sql \o theoretical \o behavioral

---------------------------------------------------------------------------
(* useInterviewStore *)

InitialProgress == [totalXP |-> 0, level |-> 1, completedInterviews |-> 0]

InitialStore ==
    [jobDescription |-> Null,
     skillGaps |-> <<>>,
     userProgress |-> InitialProgress,
     currentSession |-> Null,
     currentQuestion |-> Null,
     currentQuestionIndex |-> 0,
     isInterviewActive |-> FALSE,
     interviewPhase |-> "setup",
     isDarkMode |-> FALSE,
     currentView |-> "upload",
     error |-> Null,
     voiceSettings |-> [isEnabled |-> TRUE],
     accessibilitySettings |-> [highContrast |-> FALSE]]

\* A partialize that keeps the preferences alone; the persistence property is
\* checked against it to show that it tells the two apart.
partialize_preferences(state) ==
    [isDarkMode |-> state.isDarkMode,
     voiceSettings |-> state.voiceSettings,
     accessibilitySettings |-> state.accessibilitySettings]

\* persist's partialize: the part of the state written to localStorage
partialize(state) ==
    [isDarkMode |-> state.isDarkMode,
     voiceSettings |-> state.voiceSettings,
     accessibilitySettings |-> state.accessibilitySettings,
     userProgress |-> state.userProgress]

\* persist's rehydration at page load: the stored part is merged (shallowly)
\* over the initial state
rehydrate(stored) ==
    [field \in DOMAIN InitialStore |->
        IF field \in DOMAIN stored THEN stored[field] ELSE InitialStore[field]]

setJobDescription(s, jd) == [s EXCEPT !.jobDescription = Some(jd), !.error = Null]

setSkillGaps(s, gaps) == [s EXCEPT !.skillGaps = gaps]

phaseOf(q) ==
    IF q = Null THEN "behavioral"
    ELSE IF Val(q).type = "coding" THEN "coding"
    ELSE IF Val(q).type = "sql" THEN "sql"
    ELSE IF Val(q).type = "theoretical" THEN "theoretical"
    ELSE "behavioral"

startInterview(s, questions) ==
    LET first == IF Len(questions) > 0 THEN Some(questions[1]) ELSE Null
    IN  [s EXCEPT !.currentSession = Some([questions |-> questions, answers |-> <<>>]),
                  !.currentQuestion = first,
                  !.currentQuestionIndex = 0,
                  !.isInterviewActive = TRUE,
                  !.currentView = "interview",
                  !.interviewPhase = phaseOf(first),
                  !.error = Null]

addXP(s, amount) ==
    LET newTotalXP == s.userProgress.totalXP + amount
    IN  [s EXCEPT !.userProgress.totalXP = newTotalXP,
                  !.userProgress.level = (newTotalXP \div 1000) + 1]

\* Math.floor(answer.score * 10), the score being in 1/ScoreScale points
xpGained(score) == (score * 10) \div ScoreScale

submitAnswer(s, a) ==
    IF s.currentSession = Null THEN s
    ELSE LET updatedAnswers == Append(Val(s.currentSession).answers, a)
         IN  [addXP(s, xpGained(a.score)) EXCEPT
                  !.currentSession = Some([Val(s.currentSession) EXCEPT !.answers = updatedAnswers]),
                  !.error = Null]

endInterview(s) ==
    IF s.currentSession = Null THEN s
    ELSE [s EXCEPT !.isInterviewActive = FALSE,
                   !.currentView = "results",
                   !.interviewPhase = "complete",
                   !.userProgress.completedInterviews = @ + 1,
                   !.error = Null]

nextQuestion(s) ==
    IF s.currentSession = Null THEN s
    ELSE LET nextIndex == s.currentQuestionIndex + 1
             questions == Val(s.currentSession).questions
         IN  IF nextIndex < Len(questions)
             THEN [s EXCEPT !.currentQuestionIndex = nextIndex,
                            !.currentQuestion = Some(questions[nextIndex + 1]),
                            !.interviewPhase = phaseOf(Some(questions[nextIndex + 1])),
                            !.error = Null]
             ELSE endInterview(s)

RECURSIVE withoutQuestion(_, _)
withoutQuestion(answers, questionId) ==
    IF answers = <<>> THEN <<>>
    ELSE (IF Head(answers).questionId # questionId THEN <<Head(answers)>> ELSE <<>>)
         \o withoutQuestion(Tail(answers), questionId)

\* retryQuestion dropping every answer of the session; the retry property is
\* checked against it to show that it depends on which answers are removed.
retryQuestion_clearsAnswers(s) ==
    IF s.currentSession = Null THEN s
    ELSE [s EXCEPT !.currentSession = Some([Val(s.currentSession) EXCEPT !.answers = <<>>]),
                   !.error = Null]

retryQuestion(s) ==
    IF s.currentSession = Null THEN s
    ELSE LET session == Val(s.currentSession)
             \* questions[currentQuestionIndex]?.id; 0 stands for undefined
             currentQuestionId ==
                 IF s.currentQuestionIndex < Len(session.questions)
                 THEN session.questions[s.currentQuestionIndex + 1].id ELSE 0
         IN  [s EXCEPT !.currentSession =
                           Some([session EXCEPT !.answers =
                                    withoutQuestion(session.answers, currentQuestionId)]),
                       !.error = Null]

toggleDarkMode(s) == [s EXCEPT !.isDarkMode = ~s.isDarkMode]
setCurrentView(s, view) == [s EXCEPT !.currentView = view, !.error = Null]
setError(s, message) == [s EXCEPT !.error = Some(message)]
clearError(s) == [s EXCEPT !.error = Null]
updateVoiceSettings(s, isEnabled) == [s EXCEPT !.voiceSettings.isEnabled = isEnabled]
updateAccessibilitySettings(s, highContrast) ==
    [s EXCEPT !.accessibilitySettings.highContrast = highContrast]

resetAll(s) ==
    [s EXCEPT !.jobDescription = Null,
              !.skillGaps = <<>>,
              !.currentSession = Null,
              !.currentQuestion = Null,
              !.currentQuestionIndex = 0,
              !.isInterviewActive = FALSE,
              !.interviewPhase = "setup",
              !.currentView = "upload",
              !.error = Null]

\* Every set() of the store is followed by the middleware's write of
\* partialize(state) to localStorage.
Set(newState) ==
    /\ store' = newState
    /\ storage' = partialize(newState)

---------------------------------------------------------------------------
(* Bounds and the inputs the user is given *)

MaxSessions == 1
MaxRetries == 1
MaxVoice == 1
MaxTime == 1
MaxOrphans == 1

JdShort == "Python developer"
JdBlank == "                                                  Python"
JdNoSkill == "we need a diligent accountant able to handle monthly taxes and audits"
JdPython == "Senior Python engineer wanted: build data pipelines with Python and Docker"
JdSql == "Data analyst: write SQL reports, tune PostgreSQL queries, script in Python"
JdJavaScript == "Frontend developer: JavaScript, React and CSS; ship features with the team"
JDTexts == {JdShort, JdBlank, JdNoSkill, JdPython, JdSql, JdJavaScript}

StarAnswer ==
    "In one project I had to fix a bug; I decided to refactor, and the result improved load time by 30%."
AnswerInputs == {"", "  ", StarAnswer}

PythonCode == "def reverse(s):\n    return s[::-1]"
CodeInputs == {"", "  ", PythonCode}

VoiceText == " [Voice input simulated - please type your actual answer]"

\* What the textarea can hold: a typed text followed by the texts that
\* simulated voice inputs appended to it.
RECURSIVE voiced(_, _)
voiced(text, n) == IF n = 0 THEN text ELSE voiced(text, n - 1) \o VoiceText

AnswerTexts == {voiced(text, n) : text \in AnswerInputs, n \in 0..MaxVoice}

\* parseJobDescription, computed once for each text the user can enter.
ParsedJDs == {<<text, parseJobDescription(text)>> : text \in JDTexts}

parsedJD(text) == (CHOOSE p \in ParsedJDs : p[1] = text)[2]

AcceptedJDs == {p[2].jobData : p \in {r \in ParsedJDs : ~r[2].rejected}}

\* Every question of every interview the accepted job descriptions lead to.
AskedQuestions == UNION {Range(generateQuestions(jd)) : jd \in AcceptedJDs}

---------------------------------------------------------------------------
(* Components: mounting gives a component its initial state *)

FreshUpload ==
    /\ uploadStatus' = "idle"
    /\ jdText' = ""
    /\ jdTimeout' = Null

FreshAnalysis(mounted) ==
    /\ isAnalyzing' = TRUE
    /\ analysisTimer' = mounted

\* An unmounted InterviewInterface: its timers can no longer change anything.
FreshInterview ==
    /\ answer' = ""
    /\ code' = ""
    /\ timeSpent' = 0
    /\ hasSubmitted' = FALSE
    /\ evaluation' = Null
    /\ isEvaluating' = FALSE
    /\ isRecording' = FALSE
    /\ evalTimer' = Null
    /\ voiceTimers' = <<>>

---------------------------------------------------------------------------
(* FileUpload *)

\* App renders FileUpload for the view 'upload' and for every view it has no
\* case for ('settings').
showsFileUpload == store.currentView \in {"upload", "settings"}

\* handleJDInput leaving the pending timer alone; the debounce property is
\* checked against it to show that it depends on the cancellation.
clearTimeout_ignored(timers) == timers

\* clearTimeout(jdTimeoutRef.current): the ref holds the timer set last, which
\* is the newest of those pending, if any is.
clearTimeout(timers) ==
    IF timers = <<>> THEN <<>> ELSE SubSeq(timers, 1, Len(timers) - 1)

handleJDInput(text) ==
    /\ showsFileUpload
    /\ text # jdText
    /\ jdText' = text
    /\ IF Len(text) < 50
       THEN /\ jdTimeout' = clearTimeout(jdTimeout)
            /\ uploadStatus' = "idle"
            /\ UNCHANGED <<store, storage>>
       ELSE /\ uploadStatus' = "uploading"
            /\ Set(clearError(store))
            /\ jdTimeout' = Append(clearTimeout(jdTimeout), text)
    /\ UNCHANGED <<analysisVars, interviewVars, boundVars, evalVars, orphanVars>>

HandleJDInput == \E text \in JDTexts : handleJDInput(text)

\* The debounced analysis: the timer set by handleJDInput fires.
JDTimeout ==
    /\ showsFileUpload
    /\ jdTimeout # Null
    /\ LET parsed == parsedJD(Val(jdTimeout))
       IN  IF ~parsed.rejected
           THEN /\ Set(setJobDescription(store, Val(parsed.jobData)))
                /\ uploadStatus' = "success"
           ELSE /\ Set(setError(store, parsed.message))
                /\ uploadStatus' = "error"
    /\ jdTimeout' = Tail(jdTimeout)
    /\ UNCHANGED <<jdText, analysisVars, interviewVars, boundVars, evalVars, orphanVars>>

HandleRetryJD ==
    /\ showsFileUpload
    /\ uploadStatus = "error"
    /\ uploadStatus' = "idle"
    /\ jdText' = ""
    /\ Set(clearError(store))
    /\ jdTimeout' = clearTimeout(jdTimeout)
    /\ UNCHANGED <<analysisVars, interviewVars, boundVars, evalVars, orphanVars>>

HandleStartOver ==
    /\ showsFileUpload
    /\ Set(clearError(resetAll(store)))
    /\ uploadStatus' = "idle"
    /\ jdText' = ""
    /\ jdTimeout' = clearTimeout(jdTimeout)
    /\ UNCHANGED <<analysisVars, interviewVars, boundVars, evalVars, orphanVars>>

canProceed == uploadStatus = "success"

Proceed ==
    /\ showsFileUpload
    /\ canProceed
    /\ Set(setCurrentView(store, "analysis"))
    /\ FreshUpload
    /\ FreshAnalysis(store.jobDescription # Null)
    /\ UNCHANGED <<interviewVars, boundVars, evalVars, orphanVars>>

---------------------------------------------------------------------------
(* SkillAnalysis *)

skillGapsOf(jd) ==
    LET allRequiredSkills == jd.requiredSkills \o jd.preferredSkills
    IN  [i \in 1..Len(allRequiredSkills) |->
            [skill |-> allRequiredSkills[i],
             requiredLevel |-> IF allRequiredSkills[i] \in Range(jd.requiredSkills)
                               THEN 8 ELSE 6]]

AnalysisTimer ==
    /\ store.currentView = "analysis"
    /\ analysisTimer
    /\ Set(setSkillGaps(store, skillGapsOf(Val(store.jobDescription))))
    /\ isAnalyzing' = FALSE
    /\ analysisTimer' = FALSE
    /\ UNCHANGED <<uploadVars, interviewVars, boundVars, evalVars, orphanVars>>

StartInterviewClick ==
    /\ store.currentView = "analysis"
    /\ ~isAnalyzing
    /\ sessions < MaxSessions
    /\ Set(startInterview(store, generateQuestions(store.jobDescription)))
    /\ sessions' = sessions + 1
    /\ FreshAnalysis(FALSE)
    /\ FreshInterview
    /\ UNCHANGED <<uploadVars, retries, voiceStarts, evalVars, orphanVars>>

---------------------------------------------------------------------------
(* InterviewInterface *)

InInterview ==
    /\ store.currentView = "interview"
    /\ store.currentSession # Null
    /\ store.currentQuestion # Null

\* The code editor is rendered for coding and sql questions, the textarea
\* (with the voice button) for the others.
showsCodeEditor == Val(store.currentQuestion).type \in {"coding", "sql"}

SetAnswer ==
    \E text \in AnswerInputs :
        /\ InInterview
        /\ ~showsCodeEditor
        /\ text # answer
        /\ answer' = text
        /\ UNCHANGED <<store, storage, uploadVars, analysisVars, code, timeSpent,
                       hasSubmitted, evaluation, isEvaluating, isRecording, evalTimer,
                       voiceTimers, boundVars, evalVars, orphanVars>>

SetCode ==
    \E text \in CodeInputs :
        /\ InInterview
        /\ showsCodeEditor
        /\ text # code
        /\ code' = text
        /\ UNCHANGED <<store, storage, uploadVars, analysisVars, answer, timeSpent,
                       hasSubmitted, evaluation, isEvaluating, isRecording, evalTimer,
                       voiceTimers, boundVars, evalVars, orphanVars>>

\* setInterval(() => setTimeSpent(prev => prev + 1), 1000)
Tick ==
    /\ InInterview
    /\ timeSpent < MaxTime
    /\ timeSpent' = timeSpent + 1
    /\ UNCHANGED <<store, storage, uploadVars, analysisVars, answer, code,
                   hasSubmitted, evaluation, isEvaluating, isRecording, evalTimer,
                   voiceTimers, boundVars, evalVars, orphanVars>>

HandleVoiceToggle ==
    /\ InInterview
    /\ ~showsCodeEditor
    /\ IF isRecording
       THEN /\ isRecording' = FALSE
            /\ UNCHANGED <<voiceTimers, voiceStarts>>
       ELSE /\ voiceStarts < MaxVoice
            /\ isRecording' = TRUE
            /\ voiceTimers' = Append(voiceTimers, store.currentQuestionIndex)
            /\ voiceStarts' = voiceStarts + 1
    /\ UNCHANGED <<store, storage, uploadVars, analysisVars, answer, code, timeSpent,
                   hasSubmitted, evaluation, isEvaluating, evalTimer, sessions, retries,
                   evalVars, orphanVars>>

\* The timer of a simulated voice input fires, on whatever question is shown.
VoiceTimer ==
    /\ InInterview
    /\ voiceTimers # <<>>
    /\ voiceTimers' = Tail(voiceTimers)
    /\ isRecording' = FALSE
    /\ answer' = answer \o VoiceText
    /\ UNCHANGED <<store, storage, uploadVars, analysisVars, code, timeSpent,
                   hasSubmitted, evaluation, isEvaluating, evalTimer, boundVars, evalVars, orphanVars>>

\* The Submit Answer button is rendered and enabled.
submitEnabled ==
    /\ ~hasSubmitted
    /\ ~isEvaluating
    /\ ~(trim(answer) = "" /\ trim(code) = "")

userAnswerOf(question, c, a) == IF question.type = "coding" THEN c ELSE a

HandleSubmitAnswer ==
    /\ InInterview
    /\ submitEnabled
    /\ LET currentQuestion == Val(store.currentQuestion)
           userAnswer == userAnswerOf(currentQuestion, code, answer)
       IN  IF trim(userAnswer) = ""
           THEN UNCHANGED <<isEvaluating, evalTimer>>
           ELSE /\ isEvaluating' = TRUE
                /\ evalTimer' = Some([question |-> currentQuestion, code |-> code,
                                      answer |-> answer, userAnswer |-> userAnswer])
    /\ UNCHANGED <<store, storage, uploadVars, analysisVars, answer, code, timeSpent,
                   hasSubmitted, evaluation, isRecording, voiceTimers, boundVars, evalVars, orphanVars>>

\* switch (currentQuestion.type) in the evaluation timer
evaluationResultOf(question, c, a) ==
    CASE question.type = "coding" -> evaluateCode(c, question)
      [] question.type = "sql" -> evaluateCode(c, question)
      [] question.type = "theoretical" -> evaluateTheoretical(a, question)
      [] question.type = "behavioral" -> evaluateBehavioral(a, question)
      [] OTHER -> Result(Pts(5), TRUE)

\* evaluationResultOf, computed once for each question and each text it can
\* be given (the editor's code on coding and sql questions, the textarea's
\* answer on the others).
evaluatedText(question, c, a) == IF question.type \in {"coding", "sql"} THEN c ELSE a

EvaluationResults ==
    {<<question, text, evaluationResultOf(question, text, text)>> :
        question \in AskedQuestions, text \in CodeInputs \cup AnswerTexts}

evaluationResult(question, c, a) ==
    (CHOOSE r \in EvaluationResults :
        r[1] = question /\ r[2] = evaluatedText(question, c, a))[3]

answerDataOf(pending, result) ==
    [questionId |-> pending.question.id,
     userAnswer |-> pending.userAnswer,
     code |-> IF pending.question.type \in {"coding", "sql"} THEN Some(pending.code) ELSE Null,
     score |-> result.score,
     isCorrect |-> result.isCorrect]

\* The timer set by handleSubmitAnswer fires.  An exception thrown by the
\* evaluator leaves the callback before any state is set.
EvaluationTimer ==
    /\ InInterview
    /\ evalTimer # Null
    /\ evalTimer' = Null
    /\ LET pending == Val(evalTimer)
           result == evaluationResult(pending.question, pending.code, pending.answer)
       IN  IF result.threw
           THEN UNCHANGED <<store, storage, evaluation, isEvaluating, hasSubmitted>>
           ELSE /\ evaluation' = Some(result)
                /\ isEvaluating' = FALSE
                /\ Set(submitAnswer(store, answerDataOf(pending, result)))
                /\ hasSubmitted' = TRUE
    /\ UNCHANGED <<uploadVars, analysisVars, answer, code, timeSpent, isRecording,
                   voiceTimers, boundVars, evalVars, orphanVars>>

HandleRetryQuestion ==
    /\ InInterview
    /\ hasSubmitted
    /\ evaluation # Null
    /\ ~Val(evaluation).isCorrect
    /\ retries < MaxRetries
    /\ retries' = retries + 1
    /\ Set(retryQuestion(store))
    /\ answer' = ""
    /\ code' = ""
    /\ hasSubmitted' = FALSE
    /\ evaluation' = Null
    /\ UNCHANGED <<uploadVars, analysisVars, timeSpent, isEvaluating, isRecording,
                   evalTimer, voiceTimers, sessions, voiceStarts, evalVars, orphanVars>>

isLastQuestion ==
    store.currentQuestionIndex >= Len(Val(store.currentSession).questions) - 1

\* Next Question: the store moves on and the effect on currentQuestionIndex
\* resets the answer state.  Finish Interview: the results view replaces the
\* interview screen.
HandleNextQuestion ==
    /\ InInterview
    /\ hasSubmitted
    /\ IF isLastQuestion
       THEN /\ Set(endInterview(store))
            /\ FreshInterview
       ELSE /\ Set(nextQuestion(store))
            /\ answer' = ""
            /\ code' = ""
            /\ timeSpent' = 0
            /\ hasSubmitted' = FALSE
            /\ evaluation' = Null
            /\ UNCHANGED <<isEvaluating, isRecording, evalTimer, voiceTimers>>
    /\ UNCHANGED <<uploadVars, analysisVars, boundVars, evalVars, orphanVars>>

---------------------------------------------------------------------------
(* InterviewResults, App and the page *)

\* setCurrentView(view) for a view that shows FileUpload.  The component of
\* the view that is left is unmounted: its state is gone, and its pending
\* timers still fire, with their effect on the store.  FileUpload, when it is
\* the component on screen already, stays as it is.
navigate(view) ==
    /\ Set(setCurrentView(store, view))
    /\ CASE showsFileUpload ->
              UNCHANGED <<uploadVars, analysisVars, interviewVars, orphanVars>>
         [] store.currentView = "analysis" ->
              /\ analysisTimer => Len(orphanAnalyses) < MaxOrphans
              /\ orphanAnalyses' =
                     IF analysisTimer
                     THEN Append(orphanAnalyses, skillGapsOf(Val(store.jobDescription)))
                     ELSE orphanAnalyses
              /\ FreshUpload
              /\ FreshAnalysis(FALSE)
              /\ UNCHANGED <<interviewVars, orphanEvals>>
         [] store.currentView = "interview" ->
              /\ orphanEvals' =
                     IF evalTimer # Null THEN Append(orphanEvals, Val(evalTimer))
                     ELSE orphanEvals
              /\ FreshUpload
              /\ FreshInterview
              /\ UNCHANGED <<analysisVars, orphanAnalyses>>
         [] OTHER ->
              /\ FreshUpload
              /\ UNCHANGED <<analysisVars, interviewVars, orphanVars>>
    /\ UNCHANGED <<boundVars, evalVars>>

\* InterviewResults: the button back to the upload screen
BackToUpload ==
    /\ store.currentView = "results"
    /\ navigate("upload")

\* Header: the logo and the settings button, on screen in every view
HeaderLogo == navigate("upload")

HeaderSettings == navigate("settings")

\* The analysis timer of a SkillAnalysis that was left: setSkillGaps(gaps)
OrphanAnalysisTimer ==
    /\ orphanAnalyses # <<>>
    /\ Set(setSkillGaps(store, Head(orphanAnalyses)))
    /\ orphanAnalyses' = Tail(orphanAnalyses)
    /\ UNCHANGED <<uploadVars, analysisVars, interviewVars, boundVars, evalVars, orphanEvals>>

\* The evaluation timer of an InterviewInterface that was left:
\* submitAnswer(answerData), unless the evaluator throws.
OrphanEvaluationTimer ==
    /\ orphanEvals # <<>>
    /\ LET pending == Head(orphanEvals)
           result == evaluationResult(pending.question, pending.code, pending.answer)
       IN  IF result.threw
           THEN UNCHANGED <<store, storage>>
           ELSE Set(submitAnswer(store, answerDataOf(pending, result)))
    /\ orphanEvals' = Tail(orphanEvals)
    /\ UNCHANGED <<uploadVars, analysisVars, interviewVars, boundVars, evalVars, orphanAnalyses>>

\* The error banner's close button, and the timer that closes it.
ClearError ==
    /\ store.error # Null
    /\ Set(clearError(store))
    /\ UNCHANGED <<uploadVars, analysisVars, interviewVars, boundVars, evalVars, orphanVars>>

ToggleDarkMode ==
    /\ Set(toggleDarkMode(store))
    /\ UNCHANGED <<uploadVars, analysisVars, interviewVars, boundVars, evalVars, orphanVars>>

UpdateVoiceSettings ==
    /\ Set(updateVoiceSettings(store, ~store.voiceSettings.isEnabled))
    /\ UNCHANGED <<uploadVars, analysisVars, interviewVars, boundVars, evalVars, orphanVars>>

UpdateAccessibilitySettings ==
    /\ Set(updateAccessibilitySettings(store, ~store.accessibilitySettings.highContrast))
    /\ UNCHANGED <<uploadVars, analysisVars, interviewVars, boundVars, evalVars, orphanVars>>

\* The page is loaded again: the store is created with its initial state and
\* the middleware merges what localStorage holds; every component is new and
\* the timers of the old page are gone.
Reload ==
    /\ store' = rehydrate(storage)
    /\ UNCHANGED storage
    /\ FreshUpload
    /\ FreshAnalysis(FALSE)
    /\ FreshInterview
    /\ orphanAnalyses' = <<>>
    /\ orphanEvals' = <<>>
    /\ UNCHANGED <<boundVars, evalVars>>

---------------------------------------------------------------------------
(* Specifications of the application *)

Init ==
    /\ store = InitialStore
    /\ storage = partialize(InitialStore)
    /\ uploadStatus = "idle"
    /\ jdText = ""
    /\ jdTimeout = Null
    /\ isAnalyzing = TRUE
    /\ analysisTimer = FALSE
    /\ answer = ""
    /\ code = ""
    /\ timeSpent = 0
    /\ hasSubmitted = FALSE
    /\ evaluation = Null
    /\ isEvaluating = FALSE
    /\ isRecording = FALSE
    /\ evalTimer = Null
    /\ voiceTimers = <<>>
    /\ sessions = 0
    /\ retries = 0
    /\ voiceStarts = 0
    /\ evalQuestion = Null
    /\ evalInput = ""
    /\ evalResult = Null
    /\ orphanAnalyses = <<>>
    /\ orphanEvals = <<>>

\* From the job description to the results and back.
Core ==
    \/ HandleJDInput
    \/ JDTimeout
    \/ HandleRetryJD
    \/ HandleStartOver
    \/ Proceed
    \/ AnalysisTimer
    \/ StartInterviewClick
    \/ SetAnswer
    \/ SetCode
    \/ HandleSubmitAnswer
    \/ EvaluationTimer
    \/ HandleNextQuestion
    \/ BackToUpload
    \/ ClearError

\* One page load, with retries and the question clock.
Next ==
    \/ Core
    \/ HandleRetryQuestion
    \/ Tick

Spec == Init /\ [][Next]_vars

\* The preferences and reloads of the page.
NextPersist ==
    \/ Core
    \/ ToggleDarkMode
    \/ UpdateVoiceSettings
    \/ UpdateAccessibilitySettings
    \/ Reload

SpecPersist == Init /\ [][NextPersist]_vars

\* The simulated voice input.
NextVoice ==
    \/ Core
    \/ HandleVoiceToggle
    \/ VoiceTimer

SpecVoice == Init /\ [][NextVoice]_vars

\* The header: leaving a screen for the upload screen at any moment.
NextHeader ==
    \/ Core
    \/ HeaderLogo
    \/ HeaderSettings
    \/ OrphanAnalysisTimer
    \/ OrphanEvaluationTimer

SpecHeader == Init /\ [][NextHeader]_vars

\* A candidate who does what the interview asks and nothing else: enters a
\* job description, types an answer into the input the question shows, submits
\* it and moves on.  The timers fire and the candidate does not walk away.
EnterAnswer == SetAnswer /\ answer = "" /\ ~hasSubmitted /\ ~isEvaluating /\ trim(answer') # ""

EnterCode == SetCode /\ code = "" /\ ~hasSubmitted /\ ~isEvaluating /\ trim(code') # ""

NextCandidate ==
    \/ HandleJDInput
    \/ JDTimeout
    \/ Proceed
    \/ AnalysisTimer
    \/ StartInterviewClick
    \/ EnterAnswer
    \/ EnterCode
    \/ HandleSubmitAnswer
    \/ EvaluationTimer
    \/ HandleNextQuestion

SpecCandidate == Init /\ [][NextCandidate]_vars /\ WF_vars(NextCandidate)

---------------------------------------------------------------------------
(* Specification of the evaluators: each entry point applied to a question
   and a text *)

JavaScriptLoop == "function reverse(s) { let r = ''; for (const c of s) r = c + r; return r; }"
JavaScriptBuiltin == "const reverse = s => s.split('').reverse().join('');"
PythonLoop == "def reverse(s):\n    r = ''\n    for c in s:\n        r = c + r\n    return r"
SqlSecondHighest == "SELECT salary FROM employees ORDER BY salary DESC LIMIT 1 OFFSET 1;"
SqlJoin == "SELECT e.name, d.name FROM employees e JOIN departments d ON e.dept_id = d.id;"
RestAnswer ==
    "REST exposes many HTTP endpoints; GraphQL has one query endpoint and avoids over-fetching."
SolidAnswer ==
    "singleresponsibility, openclosed, liskovsubstitution, interfacesegregation, dependencyinversion."
MicroservicesAnswer ==
    "Independent, scalable, distributed services; each has its API, database and deployment."
BriefAnswer == "It is 42."
LongStarAnswer ==
    "The situation: when our release project slipped, I was responsible for the build task. "
    \o "I decided to take action and implemented caching in the pipeline, step by step, "
    \o "and the result was that we achieved a 40% faster build and improved morale a lot."

EvalInputs ==
    {"", "   ", "asdf", "hello", JavaScriptLoop, JavaScriptBuiltin, PythonCode, PythonLoop,
     SqlSecondHighest, SqlJoin, RestAnswer, SolidAnswer, MicroservicesAnswer, BriefAnswer,
     StarAnswer, LongStarAnswer}

InitEval ==
    /\ store = InitialStore
    /\ storage = partialize(InitialStore)
    /\ uploadStatus = "idle"
    /\ jdText = ""
    /\ jdTimeout = Null
    /\ isAnalyzing = TRUE
    /\ analysisTimer = FALSE
    /\ answer = ""
    /\ code = ""
    /\ timeSpent = 0
    /\ hasSubmitted = FALSE
    /\ evaluation = Null
    /\ isEvaluating = FALSE
    /\ isRecording = FALSE
    /\ evalTimer = Null
    /\ voiceTimers = <<>>
    /\ sessions = 0
    /\ retries = 0
    /\ voiceStarts = 0
    /\ evalQuestion \in {Some(question) : question \in AskedQuestions}
    /\ evalInput \in EvalInputs
    /\ evalResult = Null
    /\ orphanAnalyses = <<>>
    /\ orphanEvals = <<>>

Evaluated(by, result) ==
    /\ evalResult = Null
    /\ evalResult' = Some([by |-> by, result |-> result])
    /\ UNCHANGED <<store, storage, uploadVars, analysisVars, interviewVars, boundVars,
                   evalQuestion, evalInput, orphanVars>>

EvaluateCode == Evaluated("evaluateCode", evaluateCode(evalInput, Val(evalQuestion)))

EvaluateTheoretical ==
    Evaluated("evaluateTheoretical", evaluateTheoretical(evalInput, Val(evalQuestion)))

EvaluateBehavioral ==
    Evaluated("evaluateBehavioral", evaluateBehavioral(evalInput, Val(evalQuestion)))

\* The evaluation handleSubmitAnswer's timer makes for the question's type.
EvaluateSubmitted ==
    Evaluated("handleSubmitAnswer", evaluationResultOf(Val(evalQuestion), evalInput, evalInput))

NextEval ==
    \/ EvaluateCode
    \/ EvaluateTheoretical
    \/ EvaluateBehavioral
    \/ EvaluateSubmitted

SpecEval == InitEval /\ [][NextEval]_vars

---------------------------------------------------------------------------
(* Properties *)

sessionQuestions == Val(store.currentSession).questions
sessionAnswers == Val(store.currentSession).answers

countOfType(questions, type) ==
    Cardinality({i \in 1..Len(questions) : questions[i].type = type})

\* C1: every interview can be completed.  Under SpecCandidate, where the
\* candidate types a non-empty answer into the input each question shows,
\* submits it and clicks Next or Finish, and where every timer fires, an
\* interview that has started leads to the results view with the interview
\* phase 'complete'.
C1_InterviewCompletes ==
    InInterview ~> (store.currentView = "results" /\ store.interviewPhase = "complete")

\* C2: the question list that generateQuestions passes to startInterview has
\* at least 30 questions, whatever accepted job description it was made from.
C2_AtLeastThirtyQuestions ==
    store.currentSession # Null => Len(sessionQuestions) >= 30

\* C3: the question list of an interview holds at least 10 coding, 5 sql,
\* 10 theoretical and 5 behavioral questions.
C3_QuestionsOfEachType ==
    store.currentSession # Null =>
        /\ countOfType(sessionQuestions, "coding") >= 10
        /\ countOfType(sessionQuestions, "sql") >= 5
        /\ countOfType(sessionQuestions, "theoretical") >= 10
        /\ countOfType(sessionQuestions, "behavioral") >= 5

PreferenceFields == {"isDarkMode", "voiceSettings", "accessibilitySettings"}
InterviewFields ==
    {"jobDescription", "skillGaps", "currentSession", "currentQuestion", "currentQuestionIndex"}

\* C4, as the claim states it: nothing but the preferences is persisted, so a
\* reload of the page gives the job description, the skill gaps, the
\* session, the current question and its index, and the user's progress
\* their initial values.
C4_ReloadForgetsUserData ==
    \A field \in InterviewFields \cup {"userProgress"} :
        rehydrate(storage)[field] = InitialStore[field]

\* C4, amended: what is persisted is the preferences (dark mode, voice
\* settings, accessibility settings) and the user's progress; localStorage
\* holds their current values, a reload gives them back, and it gives the
\* job description, the skill gaps, the session and the current question and
\* index their initial values.
C4_PreferencesAndProgressPersisted ==
    /\ DOMAIN storage = PreferenceFields \cup {"userProgress"}
    /\ \A field \in DOMAIN storage :
           storage[field] = store[field] /\ rehydrate(storage)[field] = store[field]
    /\ \A field \in InterviewFields : rehydrate(storage)[field] = InitialStore[field]

\* A page reloaded in the middle of an interview, with a preference changed:
\* the experience points earned are there, the session is not.
C4_ReloadedDuringInterview ==
    /\ store.userProgress.totalXP > 0
    /\ store.userProgress.completedInterviews = 0
    /\ store.currentSession = Null
    /\ store.jobDescription = Null
    /\ store.isDarkMode

evalScore == Val(evalResult).result.score

\* C5: every score that evaluateCode, evaluateTheoretical and
\* evaluateBehavioral return lies between 0 and 10.
C5_ScoresInRange ==
    (evalResult # Null /\ ~Val(evalResult).result.threw) =>
        (0 <= evalScore /\ evalScore <= Pts(10))

\* A score that the cap brought down to 10: the loop in Python earns 8 for
\* the loop and 8 for being free of issues.
C5_CappedScore ==
    /\ evalResult # Null
    /\ Val(evalResult).by = "evaluateCode"
    /\ evalInput = PythonLoop
    /\ Val(evalQuestion).language = "python"
    /\ evalScore = Pts(10)

\* C6: on a question of type 'sql', when the editor holds non-empty code and
\* the Submit button can be clicked, the click starts an evaluation.
C6_SqlCodeIsEvaluated ==
    (InInterview /\ Val(store.currentQuestion).type = "sql"
                 /\ submitEnabled /\ trim(code) # "") =>
        ENABLED (HandleSubmitAnswer /\ isEvaluating')

\* C7: an evaluation that has started finishes: while isEvaluating is true
\* the evaluation timer is pending, and its firing sets isEvaluating to
\* false and hasSubmitted to true and appends one answer to the session.
C7_EvaluationFinishes ==
    (InInterview /\ isEvaluating) =>
        ENABLED (/\ EvaluationTimer
                 /\ ~isEvaluating'
                 /\ hasSubmitted'
                 /\ Len(sessionAnswers') = Len(sessionAnswers) + 1)

\* C8: the evaluation handleSubmitAnswer makes of code written for a
\* question of type 'sql' is the one evaluateSQL gives.
C8_SqlScoredBySqlRules ==
    (/\ evalResult # Null
     /\ Val(evalResult).by = "handleSubmitAnswer"
     /\ Val(evalQuestion).type = "sql"
     /\ trim(evalInput) # ""
     /\ ~isNonsenseInput(evalInput)) =>
        Val(evalResult).result = evaluateSQL(evalInput, Val(evalQuestion))

BlankTexts == {text \in CodeInputs \cup AnswerInputs \cup EvalInputs : trim(text) = ""}

\* C9: an empty or whitespace-only answer is never recorded.  No answer of
\* the session and no evaluation under way is of a blank answer; where the
\* answer handleSubmitAnswer reads is blank, a click on Submit changes
\* nothing; and the three evaluators give a blank text the score 0 and
\* isCorrect false on every question.
C9_BlankAnswerNeverRecorded ==
    /\ store.currentSession # Null =>
           \A i \in 1..Len(sessionAnswers) : trim(sessionAnswers[i].userAnswer) # ""
    /\ evalTimer # Null => trim(Val(evalTimer).userAnswer) # ""
    /\ (InInterview /\ trim(userAnswerOf(Val(store.currentQuestion), code, answer)) = "") =>
           ~ENABLED <<HandleSubmitAnswer>>_vars
    /\ \A text \in BlankTexts, question \in AskedQuestions :
           /\ evaluateCode(text, question) = Result(0, FALSE)
           /\ evaluateTheoretical(text, question) = Result(0, FALSE)
           /\ evaluateBehavioral(text, question) = Result(0, FALSE)

\* The Submit button can be clicked while the answer handleSubmitAnswer reads
\* is blank, and answers have been recorded before.
C9_SubmitOfBlankAnswer ==
    /\ InInterview
    /\ submitEnabled
    /\ trim(userAnswerOf(Val(store.currentQuestion), code, answer)) = ""
    /\ Len(sessionAnswers) > 0

noSkillFound(text) ==
    \A i \in 1..Len(commonSkills) :
        /\ ~includes(toLowerCase(text), toLowerCase(commonSkills[i]))
        /\ ~includes(toLowerCase(text), removeDotsAndSpaces(toLowerCase(commonSkills[i])))

\* C10: when the debounced analysis runs on a text whose trimmed length is
\* below 50, or in which no skill of the list is found, the store's
\* jobDescription stays as it was, the store's error becomes the message of
\* the rejection, the upload status becomes 'error' and the proceed button
\* is not offered.
C10_RejectedAnalysis ==
    [][(/\ jdTimeout # Null
        /\ jdTimeout' = Null
        /\ jdText' = jdText
        /\ (Len(trim(Val(jdTimeout))) < 50 \/ noSkillFound(Val(jdTimeout)))) =>
            (/\ store'.jobDescription = store.jobDescription
             /\ store'.error = Some(IF Len(trim(Val(jdTimeout))) < 50
                                    THEN TooShortMessage ELSE NoSkillsMessage)
             /\ uploadStatus' = "error"
             /\ ~canProceed')]_vars

\* Both rejections have happened, the second after a job description had
\* been accepted: that job description is still in the store.
C10_RejectedAfterAccepted ==
    /\ uploadStatus = "error"
    /\ store.error = Some(TooShortMessage)
    /\ store.jobDescription # Null
    /\ jdText = JdBlank

\* The index in answers of the last answer to the question, 0 if there is none
lastAnswerTo(answers, questionId) ==
    LET given == {i \in 1..Len(answers) : answers[i].questionId = questionId}
    IN  IF given = {} THEN 0 ELSE CHOOSE i \in given : \A j \in given : j <= i

removeAt(answers, i) == SubSeq(answers, 1, i - 1) \o SubSeq(answers, i + 1, Len(answers))

RECURSIVE xpOfAnswers(_)
xpOfAnswers(answers) ==
    IF answers = <<>> THEN 0
    ELSE xpGained(Head(answers).score) + xpOfAnswers(Tail(answers))

\* C12: the experience points gained since the session started are the sum
\* of floor(score * 10) over the answers the session holds.  Step by step:
\* while the session stays the same one, totalXP changes by what the sum
\* over session.answers changes by (a submitted answer is appended and adds
\* its points, and a retry, which removes an answer, takes its points away).
C12_XPMatchesAnswers ==
    [][(store.currentSession # Null /\ store'.currentSession # Null /\ sessions' = sessions) =>
           /\ store'.userProgress.totalXP - store.userProgress.totalXP =
                  xpOfAnswers(sessionAnswers') - xpOfAnswers(sessionAnswers)
           /\ Len(sessionAnswers') > Len(sessionAnswers) =>
                  SubSeq(sessionAnswers', 1, Len(sessionAnswers)) = sessionAnswers]_vars

\* C13: when currentQuestionIndex changes, the interview screen resets the
\* answer text, the code, timeSpent, hasSubmitted and the evaluation; and
\* while the answer text is empty and no voice recording has been started on
\* the question shown, no timer writes into it: a voice timer that fills the
\* empty answer was started on the question shown.
C13_ResetOnQuestionChange ==
    [][/\ (/\ InInterview /\ InInterview' /\ sessions' = sessions
           /\ store'.currentQuestionIndex # store.currentQuestionIndex) =>
              (/\ answer' = "" /\ code' = "" /\ timeSpent' = 0
               /\ ~hasSubmitted' /\ evaluation' = Null)
       /\ (/\ InInterview /\ answer = "" /\ answer' # ""
           /\ voiceTimers # <<>> /\ voiceTimers' = Tail(voiceTimers)) =>
              \E i \in 1..Len(voiceTimers) : voiceTimers[i] = store.currentQuestionIndex]_vars

\* C14: the analysis of the job description is debounced.  At most one
\* analysis timer is pending; the one pending is on the text of the latest
\* input, the text in the input box, and the upload status is 'uploading'
\* while it is (so none is pending after 'Clear and Try Again' or 'Start
\* Over', which make the status 'idle').  Whenever the upload status is
\* 'success', the description of the store's jobDescription is the text in
\* the input box.
C14_AnalysisDebounced ==
    /\ Len(jdTimeout) <= 1
    /\ jdTimeout # <<>> => (jdTimeout[Len(jdTimeout)] = jdText /\ uploadStatus = "uploading")
    /\ uploadStatus = "success" =>
           (store.jobDescription # Null /\ Val(store.jobDescription).description = jdText)

\* A new text was entered after an analysis had succeeded: the analysis
\* pending is on the new text, and the store still holds the earlier job
\* description.
C14_PendingOnLatestInput ==
    /\ jdTimeout = <<JdSql>>
    /\ jdText = JdSql
    /\ store.jobDescription # Null
    /\ Val(store.jobDescription).description = JdPython

====
